---- MODULE Spec2Model ----
(***************************************************************************)
(* Model of plant_api_openai.py: a Flask relay with two handlers,          *)
(* especie() and esplanta(), that forward a request to the chat-completion *)
(* API and post-process the reply, plus root() and health().               *)
(*                                                                         *)
(* Strings the handlers scan (request fields, model text) are sequences of *)
(* one-character strings.  JSON values are tagged records:                 *)
(*   [t |-> "absent"]            key not in the object (dict.get -> None)  *)
(*   [t |-> "null"]              JSON null / Python None                   *)
(*   [t |-> "str",  s |-> seq]   JSON string                               *)
(*   [t |-> "num",  n |-> int]   JSON integer                              *)
(*   [t |-> "word", w |-> str]   JSON string compared as a whole (tipo)    *)
(***************************************************************************)
EXTENDS Integers, Sequences, FiniteSets, TLC

VARIABLES pc, endpoint, request, reply, user, calls, response

vars == <<pc, endpoint, request, reply, user, calls, response>>

(***************************************************************************)
(* Bounds of the model.                                                    *)
(***************************************************************************)
\* longest request field (especie, pregunta)
MaxStrLen == 2
\* longest free text of a /especie reply
MaxTextLen == 4
\* most fragments concatenated into the text of a /esplanta reply
MaxParts == 3
\* integers the model returns range below 0 down to -MaxNeg ...
MaxNeg == 2
\* ... and above 100 up to 100 + MaxOver
MaxOver == 2

(***************************************************************************)
(* JSON / Python values.                                                   *)
(***************************************************************************)
Absent == [t |-> "absent"]

Null == [t |-> "null"]

Str(s) == [t |-> "str", s |-> s]

Num(n) == [t |-> "num", n |-> n]

Word(w) == [t |-> "word", w |-> w]

\* no value: the handler has not got that far
Nil == [t |-> "nil"]

RECURSIVE SeqsUpTo(_, _)
\* all sequences over alphabet A of length at most n
SeqsUpTo(A, n) ==
  IF n = 0 THEN {<<>>}
  ELSE LET S == SeqsUpTo(A, n - 1)
       IN  S \cup {Append(s, a) : s \in {x \in S : Len(x) = n - 1}, a \in A}

\* str.isspace() of one character
IsSpace(c) == c = " "

RECURSIVE lstrip(_)
lstrip(s) == IF s # <<>> /\ IsSpace(Head(s)) THEN lstrip(Tail(s)) ELSE s

RECURSIVE rstrip(_)
rstrip(s) ==
  IF s # <<>> /\ IsSpace(s[Len(s)]) THEN rstrip(SubSeq(s, 1, Len(s) - 1)) ELSE s

\* str.strip()
strip(s) == rstrip(lstrip(s))

\* Python truth value of a JSON value
Truthy(v) ==
  CASE v.t = "absent" -> FALSE
    [] v.t = "null"   -> FALSE
    [] v.t = "str"    -> v.s # <<>>
    [] v.t = "num"    -> v.n # 0
    [] v.t = "word"   -> v.w # ""
    [] OTHER          -> FALSE

(***************************************************************************)
(* Responses.                                                              *)
(***************************************************************************)
Resp(status, body) == [status |-> status, body |-> body]

\* werkzeug's BadRequest raised by get_json(force=True): an HTML 400 page
FlaskBadRequest == Resp(400, [html |-> "Bad Request"])

\* an exception escaping the view function: Flask's HTML 500 page
FlaskInternalError == Resp(500, [html |-> "Internal Server Error"])

UpstreamFailed(detail) ==
  Resp(502, [error |-> "openai request failed", detail |-> detail])

(***************************************************************************)
(* Request bodies.  kind "object" carries the value of the one field the   *)
(* handler reads (especie or pregunta).                                    *)
(***************************************************************************)
FieldStrs == SeqsUpTo({" ", "r"}, MaxStrLen)

FieldVals == {Absent, Null, Num(0), Num(5)} \cup {Str(s) : s \in FieldStrs}

Bodies ==
  {[kind |-> k] : k \in {"malformed", "empty", "null", "array", "scalar"}}
    \cup {[kind |-> "object", field |-> f] : f \in FieldVals}

Init ==
  /\ pc = "idle"
  /\ endpoint = "none"
  /\ request = Nil
  /\ reply = Nil
  /\ user = Nil
  /\ calls = 0
  /\ response = Nil

(***************************************************************************)
(* Replies of openai.ChatCompletion.create.                                *)
(*   [kind |-> "raise"]      the call raised (network, auth, rate limit)   *)
(*   [kind |-> "nochoices"]  resp['choices'] is empty                      *)
(*   [kind |-> "nomessage"]  resp['choices'][0] has no 'message'           *)
(*   [kind |-> "msg", function_call |-> fc, content |-> c]                 *)
(***************************************************************************)
HumInts == ((0 - MaxNeg) .. 1) \cup {30, 70} \cup (99 .. (100 + MaxOver))

HumVals == {Absent, Null, Str(<<"a">>)} \cup {Num(n) : n \in HumInts}

TipoVals ==
  {Absent, Null, Num(1), Word(""), Word("interior"), Word("exterior"),
   Word("Interior")}

\* the 'arguments' of a function_call: a JSON string, here by what it parses to
FuncArgs ==
  {Absent, [t |-> "malformed"], [t |-> "nonobject"]}
    \cup {[t |-> "obj", humedad_tierra |-> ht, humedad_ambiente |-> ha, tipo |-> tp] :
            ht \in HumVals, ha \in HumVals, tp \in TipoVals}

EspecieTexts == SeqsUpTo({"4", "0", "%", "a"}, MaxTextLen)

EspecieReplies ==
  {[kind |-> k] : k \in {"raise", "nochoices", "nomessage"}}
    \cup {[kind |-> "msg", function_call |-> [t |-> "fc", arguments |-> a],
           content |-> Null] : a \in FuncArgs}
    \cup {[kind |-> "msg", function_call |-> fc, content |-> c] :
            fc \in {Absent, [t |-> "emptyobj"]},
            c \in {Absent, Null} \cup {Str(s) : s \in EspecieTexts}}

\* dict.get(key): None when the key is absent
Get(v) == IF v.t = "absent" THEN Null ELSE v

\* dict.get(key, default)
GetDefault(v, d) == IF v.t = "absent" THEN d ELSE v

Min(a, b) == IF a < b THEN a ELSE b

Max(a, b) == IF a > b THEN a ELSE b

\* the exception json.loads(func_args) raises, "" when it returns
json_loads_exc(func_args) ==
  CASE func_args.t = "null"      -> "TypeError"
    [] func_args.t = "malformed" -> "JSONDecodeError"
    [] OTHER                     -> ""

\* the exception int(v) raises, "" when it returns
int_exc(v) ==
  CASE v.t = "null" -> "TypeError"
    [] v.t = "str"  -> "ValueError"
    [] OTHER        -> ""

\* line 74/75: if h < 0 or h > 100: h = max(0, min(100, h if h != -1 else 50))
clamp(h) ==
  IF h < 0 \/ h > 100 THEN Max(0, Min(100, IF h # -1 THEN h ELSE 50)) ELSE h

\* normTipo that only replaces a missing or empty tipo
normTipo_anyWord(tipo) ==
  IF tipo.t = "word" /\ tipo.w # "" THEN tipo.w ELSE "interior"

\* line 76: tipo = 'interior' if tipo not in ['interior','exterior'] else tipo
normTipo(tipo) ==
  IF tipo \notin {Word("interior"), Word("exterior")} THEN "interior" ELSE tipo.w

\* the first exception lines 68-72 raise on func_args, "" when none
args_exc(func_args) ==
  IF json_loads_exc(func_args) # "" THEN json_loads_exc(func_args)
  ELSE IF func_args.t # "obj" THEN "AttributeError"
  ELSE IF int_exc(GetDefault(func_args.humedad_tierra, Num(-1))) # ""
    THEN int_exc(GetDefault(func_args.humedad_tierra, Num(-1)))
  ELSE int_exc(GetDefault(func_args.humedad_ambiente, Num(-1)))

\* StructuredPath with a parse failure silently defaulted instead of reported
StructuredPath_defaulting(func_args) ==
  IF args_exc(func_args) # ""
  THEN Resp(200, [humedad_tierra |-> 50, humedad_ambiente |-> 50, tipo |-> "interior"])
  ELSE Resp(200,
         [humedad_tierra |-> clamp(GetDefault(func_args.humedad_tierra, Num(-1)).n),
          humedad_ambiente |-> clamp(GetDefault(func_args.humedad_ambiente, Num(-1)).n),
          tipo |-> normTipo(GetDefault(func_args.tipo, Word("")))])

\* lines 64-85: the structured path
StructuredPath(func_args) ==
  IF args_exc(func_args) # ""
  THEN Resp(500, [error |-> "failed parsing model arguments",
                  detail |-> args_exc(func_args), raw |-> func_args])
  ELSE Resp(200,
         [humedad_tierra |-> clamp(GetDefault(func_args.humedad_tierra, Num(-1)).n),
          humedad_ambiente |-> clamp(GetDefault(func_args.humedad_ambiente, Num(-1)).n),
          tipo |-> normTipo(GetDefault(func_args.tipo, Word("")))])

IsDigit(c) == c \in {"0", "1", "2", "3", "4", "5", "6", "7", "8", "9"}

DigitVal(c) ==
  CASE c = "0" -> 0 [] c = "1" -> 1 [] c = "2" -> 2 [] c = "3" -> 3
    [] c = "4" -> 4 [] c = "5" -> 5 [] c = "6" -> 6 [] c = "7" -> 7
    [] c = "8" -> 8 [] c = "9" -> 9

RECURSIVE int_str(_)
\* int(s) of a string of decimal digits
int_str(s) ==
  IF s = <<>> THEN 0
  ELSE 10 * int_str(SubSeq(s, 1, Len(s) - 1)) + DigitVal(s[Len(s)])

\* DigitRun of the pattern \d+ : the whole run of digits
DigitRun_unbounded(text, i) ==
  LET ends == {j \in i .. Len(text) : \A k \in i .. j : IsDigit(text[k])}
  IN  Cardinality(ends)

\* \d{1,3} at position i (a digit): the greedy number of digits taken
DigitRun(text, i) ==
  IF i + 1 <= Len(text) /\ IsDigit(text[i + 1])
  THEN IF i + 2 <= Len(text) /\ IsDigit(text[i + 2]) THEN 3 ELSE 2
  ELSE 1

RECURSIVE findall_from(_, _)
\* re.findall(r"(\d{1,3})%?", text), scanning from position i
findall_from(text, i) ==
  IF i > Len(text) THEN <<>>
  ELSE IF IsDigit(text[i])
  THEN LET j == i + DigitRun(text, i)
           k == IF j <= Len(text) /\ text[j] = "%" THEN j + 1 ELSE j
       IN  <<SubSeq(text, i, j - 1)>> \o findall_from(text, k)
  ELSE findall_from(text, i + 1)

findall(text) == findall_from(text, 1)

\* lines 88-96: the text fallback; content None makes re.findall raise
\* TypeError, which the handler's outer except turns into a 502
FallbackPath(message) ==
  LET text == GetDefault(message.content, Str(<<>>))
  IN  IF text.t # "str" THEN UpstreamFailed("TypeError")
      ELSE LET nums == findall(text.s)
           IN  Resp(200,
                 [humedad_tierra |-> IF Len(nums) > 0 THEN int_str(nums[1]) ELSE 50,
                  humedad_ambiente |-> IF Len(nums) > 1 THEN int_str(nums[2]) ELSE 50,
                  tipo |-> "interior",
                  note |-> "extracted from text fallback",
                  raw_text |-> text.s])

\* lines 63: choice['message'].get('function_call') is truthy
HasFunctionCall(message) == message.function_call.t = "fc"

\* lines 51-99: what the handler answers once create() has been called
EspecieReply(r) ==
  CASE r.kind = "raise"     -> UpstreamFailed("APIError")
    [] r.kind = "nochoices" -> UpstreamFailed("IndexError")
    [] r.kind = "nomessage" -> UpstreamFailed("KeyError")
    [] r.kind = "msg" ->
         IF HasFunctionCall(r)
         THEN StructuredPath(Get(r.function_call.arguments))
         ELSE FallbackPath(r)

\* lines 42-45: get_json(force=True), data.get('especie'), strip, blank test
EspecieInput(body) ==
  IF body.kind \in {"malformed", "empty"}
  THEN [done |-> TRUE, resp |-> FlaskBadRequest]
  ELSE IF body.kind # "object"
  THEN [done |-> TRUE, resp |-> FlaskInternalError]
  ELSE IF ~Truthy(body.field)
  THEN [done |-> TRUE, resp |-> Resp(400, [error |-> "missing 'especie' in JSON body"])]
  ELSE IF body.field.t # "str"
  THEN [done |-> TRUE, resp |-> FlaskInternalError]
  ELSE IF strip(body.field.s) = <<>>
  THEN [done |-> TRUE, resp |-> Resp(400, [error |-> "missing 'especie' in JSON body"])]
  ELSE [done |-> FALSE, especie |-> strip(body.field.s)]

\* POST /especie
Especie(body) ==
  /\ pc = "idle"
  /\ pc' = "done"
  /\ endpoint' = "especie"
  /\ request' = [body |-> body, form |-> Absent, args |-> Absent]
  /\ LET in == EspecieInput(body)
     IN  IF in.done
         THEN /\ response' = in.resp
              /\ reply' = Nil
              /\ user' = Nil
              /\ calls' = 0
         ELSE \E r \in EspecieReplies :
                /\ user' = Str(in.especie)
                /\ reply' = r
                /\ calls' = 1
                /\ response' = EspecieReply(r)

(***************************************************************************)
(* /esplanta.                                                              *)
(***************************************************************************)
\* request.form.get('pregunta') and request.args.get('pregunta'): a string
\* or nothing
FormVals == {Absent, Str(<<" ">>), Str(<<"r">>)}

ArgVals == {Absent, Str(<<" ">>), Str(<<"r">>)}

EsplantaRequests ==
  {[body |-> b, form |-> f, args |-> a] : b \in Bodies, f \in FormVals, a \in ArgVals}

RECURSIVE Concats(_, _)
\* all concatenations of at most n members of F
Concats(F, n) ==
  IF n = 0 THEN {<<>>}
  ELSE LET S == Concats(F, n - 1) IN S \cup {s \o f : s \in S, f \in F}

\* what the model's text is made of: the answers asked for, in either case,
\* white space and a letter that alone matches nothing
Fragments ==
  {<<"s", "í">>, <<"S", "I">>, <<"y", "e", "s">>, <<"n", "o">>, <<" ">>, <<"n">>}

EsplantaTexts == Concats(Fragments, MaxParts)

EsplantaReplies ==
  {[kind |-> k] : k \in {"raise", "nochoices", "nomessage"}}
    \cup {[kind |-> "msg", function_call |-> Absent, content |-> c] :
            c \in {Absent, Null} \cup {Str(s) : s \in EsplantaTexts}}

\* str.lower() of one character
LowerChar(c) ==
  CASE c = "S" -> "s" [] c = "I" -> "i" [] c = "Í" -> "í" [] c = "N" -> "n"
    [] c = "O" -> "o" [] c = "Y" -> "y" [] c = "E" -> "e" [] OTHER -> c

\* str.lower()
lower(s) == [i \in 1 .. Len(s) |-> LowerChar(s[i])]

\* pat in text
Contains(text, pat) ==
  \E i \in 1 .. (Len(text) - Len(pat) + 1) : SubSeq(text, i, i + Len(pat) - 1) = pat

\* classify with the negative answer tested first
classify_noFirst(text) ==
  IF Contains(text, <<"n", "o">>)
  THEN Resp(200, [es_planta |-> FALSE])
  ELSE IF Contains(text, <<"s", "í">>) \/ Contains(text, <<"s", "i">>)
            \/ Contains(text, <<"y", "e", "s">>)
  THEN Resp(200, [es_planta |-> TRUE])
  ELSE Resp(200, [es_planta |-> FALSE, raw |-> text])

\* lines 132-138: text is already stripped and lower-cased
classify(text) ==
  IF Contains(text, <<"s", "í">>) \/ Contains(text, <<"s", "i">>)
       \/ Contains(text, <<"y", "e", "s">>)
  THEN Resp(200, [es_planta |-> TRUE])
  ELSE IF Contains(text, <<"n", "o">>)
  THEN Resp(200, [es_planta |-> FALSE])
  ELSE Resp(200, [es_planta |-> FALSE, raw |-> text])

\* lines 124-140: what the handler answers once create() has been called;
\* content None makes .strip() raise AttributeError inside the try
EsplantaReply(r) ==
  CASE r.kind = "raise"     -> UpstreamFailed("APIError")
    [] r.kind = "nochoices" -> UpstreamFailed("IndexError")
    [] r.kind = "nomessage" -> UpstreamFailed("KeyError")
    [] r.kind = "msg" ->
         LET content == GetDefault(r.content, Str(<<>>))
         IN  IF content.t # "str" THEN UpstreamFailed("AttributeError")
             ELSE classify(lower(strip(content.s)))

\* line 104: request.get_json(silent=True): None when the body does not parse
get_json_silent(body) ==
  IF body.kind \in {"malformed", "empty", "null"} THEN Null ELSE body

\* lines 105-110: json.loads of the raw bytes, {} for none and on any error
raw_loads(body) ==
  IF body.kind \in {"malformed", "empty"}
  THEN [kind |-> "object", field |-> Absent]
  ELSE body

\* lines 104-112: the dict pregunta is looked up in
EsplantaData(body) ==
  LET d1 == get_json_silent(body)
      d2 == IF d1 = Null THEN raw_loads(body) ELSE d1
  IN  IF d2.kind # "object" THEN [kind |-> "object", field |-> Absent] ELSE d2

\* a or b
Or(a, b) == IF Truthy(a) THEN a ELSE b

\* lines 113-118, before .strip()
PreguntaValue(req) ==
  Or(Get(EsplantaData(req.body).field), Or(Get(req.form), Or(Get(req.args), Str(<<>>))))

\* lines 104-120
EsplantaInput(req) ==
  IF PreguntaValue(req).t # "str"
  THEN [done |-> TRUE, resp |-> FlaskInternalError]
  ELSE IF strip(PreguntaValue(req).s) = <<>>
  THEN [done |-> TRUE, resp |-> Resp(400, [error |-> "missing 'pregunta' in JSON body"])]
  ELSE [done |-> FALSE, pregunta |-> strip(PreguntaValue(req).s)]

\* POST|GET /esplanta
Esplanta(req) ==
  /\ pc = "idle"
  /\ pc' = "done"
  /\ endpoint' = "esplanta"
  /\ request' = req
  /\ LET in == EsplantaInput(req)
     IN  IF in.done
         THEN /\ response' = in.resp
              /\ reply' = Nil
              /\ user' = Nil
              /\ calls' = 0
         ELSE \E r \in EsplantaReplies :
                /\ user' = Str(in.pregunta)
                /\ reply' = r
                /\ calls' = 1
                /\ response' = EsplantaReply(r)

\* GET /
Root ==
  /\ pc = "idle"
  /\ pc' = "done"
  /\ endpoint' = "root"
  /\ response' = Resp(200, [ok |-> TRUE, service |-> "plantagotchi",
                            endpoints |-> <<"/esplanta", "/especie", "/health">>])
  /\ UNCHANGED <<request, reply, user, calls>>

\* GET /health
Health ==
  /\ pc = "idle"
  /\ pc' = "done"
  /\ endpoint' = "health"
  /\ response' = Resp(200, [ok |-> TRUE])
  /\ UNCHANGED <<request, reply, user, calls>>

\* the response is sent and the request context torn down: every request
\* starts from the same state, nothing is kept between requests
Respond ==
  /\ pc = "done"
  /\ pc' = "idle"
  /\ endpoint' = "none"
  /\ request' = Nil
  /\ reply' = Nil
  /\ user' = Nil
  /\ calls' = 0
  /\ response' = Nil

Next ==
  \/ \E body \in Bodies : Especie(body)
  \/ \E req \in EsplantaRequests : Esplanta(req)
  \/ Root
  \/ Health
  \/ Respond

Spec == Init /\ [][Next]_vars

(***************************************************************************)
(* Properties.                                                             *)
(***************************************************************************)
\* a request to endpoint e has been answered
Done(e) == pc = "done" /\ endpoint = e

\* create() was called and returned a message
GotMessage == calls = 1 /\ reply.kind = "msg"

\* the reply took the structured path
Structured == GotMessage /\ HasFunctionCall(reply)

\* the reply took the text fallback with a text to scan (a missing content
\* key reads as the empty text)
FallbackText == GotMessage /\ ~HasFunctionCall(reply) /\ reply.content.t \in {"str", "absent"}

\* the text of the reply's message
ReplyText == IF reply.content.t = "str" THEN reply.content.s ELSE <<>>

\* a source holds no usable value: missing, null or a blank string
Blank(v) ==
  \/ v.t \in {"absent", "null"}
  \/ v.t = "str" /\ \A i \in 1 .. Len(v.s) : v.s[i] = " "

\* the value the body gives the required field
BodyField(b) == IF b.kind = "object" THEN b.field ELSE Absent

MissingBody(e) == Resp(400, [error |-> "missing '" \o e \o "' in JSON body"])

\* C1: every 200 response of POST /especie, structured or fallback, has both
\* humedad_tierra and humedad_ambiente in 0..100.
C1_HumidityInRange ==
  (Done("especie") /\ response.status = 200)
    => /\ response.body.humedad_tierra \in 0 .. 100
       /\ response.body.humedad_ambiente \in 0 .. 100

\* C2: when the required field is absent or blank in every accepted source,
\* for every shape of body, the answer is 400 with exactly the documented
\* error body and the model client is not invoked.
C2_MissingFieldIs400 ==
  /\ (Done("especie") /\ Blank(BodyField(request.body)))
       => (response = MissingBody("especie") /\ calls = 0)
  /\ (Done("esplanta") /\ Blank(BodyField(request.body))
        /\ Blank(request.form) /\ Blank(request.args))
       => (response = MissingBody("pregunta") /\ calls = 0)

\* C3: on both endpoints the answer is 502 if and only if the model client
\* call itself failed; nothing that goes wrong after it returned is a 502.
C3_502IffClientFailed ==
  (pc = "done" /\ endpoint \in {"especie", "esplanta"})
    => (response.status = 502 <=> (calls = 1 /\ reply.kind = "raise"))

\* C4: on POST /especie a function_call whose arguments are malformed JSON is
\* answered 500 "failed parsing model arguments" with a detail and the raw
\* payload, never 200 and never through the text fallback.
C4_MalformedArgumentsIs500 ==
  (Done("especie") /\ Structured /\ reply.function_call.arguments.t = "malformed")
    => /\ response.status = 500
       /\ DOMAIN response.body = {"error", "detail", "raw"}
       /\ response.body.error = "failed parsing model arguments"
       /\ response.body.detail # ""
       /\ response.body.raw = reply.function_call.arguments

C4_Witness ==
  /\ Done("especie")
  /\ Structured
  /\ reply.function_call.arguments.t = "malformed"
  /\ response.status = 500

\* the sources of pregunta in priority order
Sources == <<BodyField(request.body), request.form, request.args>>

\* C5: pregunta is the first of JSON body, form field, query parameter that
\* is non-blank after trimming; 400 only when every source is absent or blank.
C5_FirstNonBlankWins ==
  (Done("esplanta") /\ \A i \in 1 .. 3 : Sources[i].t \in {"absent", "null", "str"})
    => /\ response = MissingBody("pregunta") <=> \A i \in 1 .. 3 : Blank(Sources[i])
       /\ \A i \in 1 .. 3 :
            (~Blank(Sources[i]) /\ \A j \in 1 .. (i - 1) : Blank(Sources[j]))
              => (calls = 1 /\ user = Str(strip(Sources[i].s)))

\* C6: for /esplanta with a reply that carries text, the trimmed lower-cased
\* text decides: si/yes gives exactly {es_planta: true} even next to "no",
\* else "no" gives exactly {es_planta: false}, else {es_planta: false, raw};
\* the status is 200 in all three.
C6_Classification ==
  (Done("esplanta") /\ GotMessage /\ reply.content.t \in {"str", "absent"})
    => LET text == lower(strip(ReplyText))
           yes == \E i \in 1 .. Len(text) : \E j \in i .. Len(text) :
                    SubSeq(text, i, j) \in {<<"s", "í">>, <<"s", "i">>, <<"y", "e", "s">>}
           no  == \E i \in 1 .. (Len(text) - 1) : SubSeq(text, i, i + 1) = <<"n", "o">>
       IN  /\ response.status = 200
           /\ yes => response.body = [es_planta |-> TRUE]
           /\ (~yes /\ no) => response.body = [es_planta |-> FALSE]
           /\ (~yes /\ ~no) => response.body = [es_planta |-> FALSE, raw |-> text]

C6_Witness ==
  /\ Done("esplanta")
  /\ GotMessage
  /\ reply.content = Str(<<" ", "n", "o", "S", "I">>)
  /\ response = Resp(200, [es_planta |-> TRUE])

\* C7: every 200 response of POST /especie has tipo "interior" or "exterior":
\* the structured path passes exactly these two through and forces every
\* other value to "interior"; the fallback path always answers "interior".
C7_TipoNormalized ==
  (Done("especie") /\ response.status = 200)
    => /\ response.body.tipo \in {"interior", "exterior"}
       /\ Structured =>
            LET tp == reply.function_call.arguments.tipo
            IN  response.body.tipo =
                  IF tp.t = "word" /\ tp.w \in {"interior", "exterior"}
                  THEN tp.w ELSE "interior"
       /\ ~Structured => response.body.tipo = "interior"

C7_Witness ==
  /\ Done("especie")
  /\ Structured
  /\ response.status = 200
  /\ reply.function_call.arguments.tipo = Word("Interior")
  /\ response.body.tipo = "interior"

\* the humidity C8 expects for a field of the payload
Expected(v) ==
  IF v.t = "absent" THEN 50
  ELSE IF v.n < 0 THEN 0
  ELSE IF v.n > 100 THEN 100
  ELSE v.n

\* C8: on the structured path an integer in 0..100 is emitted unchanged, one
\* below 0 as 0, one above 100 as 100, and a missing field as 50.
C8_StructuredHumidity ==
  (Done("especie") /\ Structured /\ response.status = 200)
    => /\ response.body.humedad_tierra =
            Expected(reply.function_call.arguments.humedad_tierra)
       /\ response.body.humedad_ambiente =
            Expected(reply.function_call.arguments.humedad_ambiente)

\* the outcomes section 6 documents for an endpoint
Documented(e, r) ==
  \/ /\ r.status = 200
     /\ e = "especie"
     /\ DOMAIN r.body \in {{"humedad_tierra", "humedad_ambiente", "tipo"},
                            {"humedad_tierra", "humedad_ambiente", "tipo", "note", "raw_text"}}
  \/ /\ r.status = 200
     /\ e = "esplanta"
     /\ DOMAIN r.body \in {{"es_planta"}, {"es_planta", "raw"}}
  \/ r = MissingBody(IF e = "especie" THEN "especie" ELSE "pregunta")
  \/ /\ r.status = 500
     /\ e = "especie"
     /\ DOMAIN r.body = {"error", "detail", "raw"}
  \/ /\ r.status = 502
     /\ DOMAIN r.body = {"error", "detail"}

\* C9: every request to /especie or /esplanta ends in one of the documented
\* outcomes, whatever the body and the reply, and the model client is
\* invoked at most once.
C9_OnlyDocumentedOutcomes ==
  (pc = "done" /\ endpoint \in {"especie", "esplanta"})
    => (Documented(endpoint, response) /\ calls <= 1)

\* the first position at or after k that holds a digit, 0 when there is none
DigitAtOrAfter(text, k) ==
  IF \E i \in k .. Len(text) : IsDigit(text[i])
  THEN CHOOSE i \in k .. Len(text) :
         IsDigit(text[i]) /\ \A j \in k .. (i - 1) : ~IsDigit(text[j])
  ELSE 0

\* the length of the integer-looking substring that starts at digit i: as
\* many digits as follow, three at most
LooksLen(text, i) ==
  CHOOSE l \in 1 .. 3 :
    /\ i + l - 1 <= Len(text)
    /\ \A j \in i .. (i + l - 1) : IsDigit(text[j])
    /\ l = 3 \/ i + l > Len(text) \/ ~IsDigit(text[i + l])

\* where the scan goes on after the substring at i: past its optional %
After(text, i) ==
  LET e == i + LooksLen(text, i)
  IN  IF e <= Len(text) /\ text[e] = "%" THEN e + 1 ELSE e

\* the number a substring of digits reads as
Reads(text, i) ==
  LET l == LooksLen(text, i)
      d(j) == DigitVal(text[j])
  IN  CASE l = 1 -> d(i)
        [] l = 2 -> 10 * d(i) + d(i + 1)
        [] l = 3 -> 100 * d(i) + 10 * d(i + 1) + d(i + 2)

FirstInt(text) ==
  LET i == DigitAtOrAfter(text, 1) IN IF i = 0 THEN 50 ELSE Reads(text, i)

SecondInt(text) ==
  LET i == DigitAtOrAfter(text, 1)
      k == IF i = 0 THEN 0 ELSE DigitAtOrAfter(text, After(text, i))
  IN  IF k = 0 THEN 50 ELSE Reads(text, k)

\* C10: the text fallback of POST /especie is entered only without a
\* function_call payload; there humedad_tierra is the first and
\* humedad_ambiente the second integer-looking substring of the text (1 to 3
\* digits, optional %), each 50 when there is none, with the note and
\* raw_text equal to the text; no structured 200 carries note or raw_text.
C10_TextFallback ==
  Done("especie") =>
    /\ "note" \in DOMAIN response.body => (GotMessage /\ ~HasFunctionCall(reply))
    /\ FallbackText =>
         /\ response.status = 200
         /\ response.body.humedad_tierra = FirstInt(ReplyText)
         /\ response.body.humedad_ambiente = SecondInt(ReplyText)
         /\ response.body.note = "extracted from text fallback"
         /\ response.body.raw_text = ReplyText
    /\ (Structured /\ response.status = 200)
         => DOMAIN response.body = {"humedad_tierra", "humedad_ambiente", "tipo"}

C10_Witness ==
  /\ Done("especie")
  /\ FallbackText
  /\ ReplyText = <<"4", "%", "a", "0">>
  /\ response.body.humedad_tierra = 4
  /\ response.body.humedad_ambiente = 0
  /\ "note" \in DOMAIN response.body

====
